---- MODULE Spec2Model ----
(***************************************************************************)
(* A model of errfix (github.com/yaoguais/errfix).                         *)
(*                                                                         *)
(* Part I    the syntax tree and the helpers of dst.go                     *)
(* Part II   the rule pkgErrorsDstProcessor and the walk of dst.Inspect    *)
(* Part III  the pipeline orchestrator ErrFix.Process (errgroup with a     *)
(*           limit of 8, the reader's buffered channel, the unused errCh)  *)
(* Part IV   the traversal controller Processor.Process                    *)
(* Part V    the command errfix (cmd/errfix/main.go) and DiffWriter        *)
(* Part VI   the reader: reader.Read, reader.read and the first test of fn *)
(***************************************************************************)
EXTENDS Integers, Sequences, FiniteSets, TLC

(***************************************************************************)
(* Bounds of the model and constants of the program.                       *)
(***************************************************************************)
\* the largest number of Files the reader delivers in a run (model bound)
MaxFiles == 9
\* wg.SetLimit(8)
Limit == 8
\* ch := make(chan *File, 8)
ChanCap == 8
\* the largest number of statements in the function body of an input file
MaxStmts == 2
\* the largest number of import specs in an input file (import layouts)
MaxImportSpecs == 3
\* the largest length of a format string, a final %v not counted
MaxFmtLen == 3
\* the largest number of arguments of a call after its first argument
MaxExtraArgs == 3
\* how many times Processor.Process is run, each run on the previous output
MaxRuns == 2
\* the largest number of results of a return statement (return statements)
MaxResults == 3
\* the largest number of Files of a run of the command errfix
MaxMainFiles == 3
\* the largest number of inputs given to NewReader
MaxInputs == 3

VARIABLES
    \* ---- Part III: ErrFix.Process ----
    epc,        \* position of ErrFix.Process: "read","select","go","wait","done"
    numFiles,   \* input: how many Files reader.read will deliver before close(ch)
    sent,       \* Files reader.read has put on ch so far
    closed,     \* reader.read has run its deferred close(ch)
    recv,       \* Files the select loop has taken from ch so far
    started,    \* work units handed to wg.Go so far (units are numbered 1..started)
    active,     \* the units whose fn has not returned yet
    gErr,       \* errgroup's err field (written under errOnce)
    ret,        \* what ErrFix.Process returned
    firstFail,  \* history: the unit whose fn returned an error first (0: none)
    laterFail,  \* history: some unit failed after the first failure
    recvAtFail, \* history: the value of recv when the first unit failed
    \* ---- Part IV: Processor.Process ----
    ppc,        \* position of Processor.Process: "start", "parsed", "visited",
                \* "finalized", then "rendered", "unchanged" or "failed"
    f,          \* the input File
    df,         \* the syntax tree decorator.ParseFile returned
    pchanged,   \* the rule's field p.changed
    changed,    \* the local variable changed of Processor.Process
    f2,         \* the File returned
    perr,       \* the error returned
    run,        \* 1 for the first run, n + 1 for a run on the output of run n
    \* ---- Part V: cmd/errfix main and DiffWriter ----
    mpc,        \* position of main: "process", then "exited"
    quiet,      \* flag -q
    write,      \* flag -w (DiffWriter.write)
    setExitStatus, \* flag -e
    differs,    \* input: the Files (by number) whose processed content differs
    buf,        \* DiffWriter.buf: the units whose diff text it holds, in order
    stdout,     \* what main printed on os.Stdout (diffs, by unit)
    stderr,     \* what main printed on os.Stderr (errors)
    exitCode,   \* the exit status of the command, -1 while it runs
    \* ---- Part VI: the reader ----
    rpc,        \* position of the reader: "start", "reading", "closed", "failed"
    inputs,     \* r.inputs
    fs0,        \* the paths that exist when Read is called
    fs,         \* the paths that exist now
    ri,         \* reader.read: the place in r.inputs of the next input
    fi,         \* reader.read: the counter i of formatName
    out,        \* the Files sent on ch so far
    src,        \* history: for each File of out, the place of its input
    stats,      \* history: for each input read, what os.Stat found in read
    units,      \* for each File received from ch, what fn did with it
    rret        \* the error Read returned

pipeVars == <<epc, numFiles, sent, closed, recv, started, active, gErr, ret,
              firstFail, laterFail, recvAtFail>>

procVars == <<ppc, f, df, pchanged, changed, f2, perr, run>>

mainVars == <<mpc, quiet, write, setExitStatus, differs, buf, stdout, stderr, exitCode>>

readerVars == <<rpc, inputs, fs0, fs, ri, fi, out, src, stats, units, rret>>

vars == <<pipeVars, procVars, mainVars, readerVars>>

\* the sequences of at most n elements of S
SeqsUpTo(S, n) == UNION {[1..k -> S] : k \in 0..n}

(***************************************************************************)
(* Part I.  The syntax tree (github.com/dave/dst nodes) and the helpers    *)
(* of dst.go.  A node is a record whose field t names its Go type.  The    *)
(* text of a basic literal is kept as its quoting style q and the string s *)
(* it denotes, a sequence of characters.                                   *)
(***************************************************************************)
Ident(name)         == [t |-> "Ident", Name |-> name]
BasicLit(kind, q, s) == [t |-> "BasicLit", Kind |-> kind, Value |-> [q |-> q, s |-> s]]
StringLit(q, s)     == BasicLit("STRING", q, s)
IntLit(s)           == BasicLit("INT", "none", s)
SelectorExpr(x, sel) == [t |-> "SelectorExpr", X |-> x, Sel |-> Ident(sel)]
CallExpr(fun, args) == [t |-> "CallExpr", Fun |-> fun, Args |-> args]
BinaryExpr(x, op, y) == [t |-> "BinaryExpr", X |-> x, Op |-> op, Y |-> y]
TypeAssertExpr(x, ty) == [t |-> "TypeAssertExpr", X |-> x, Type |-> ty]
ReturnStmt(results) == [t |-> "ReturnStmt", Results |-> results]
IfStmt(cond, body)  == [t |-> "IfStmt", Cond |-> cond, Body |-> body]
ExprStmt(x)         == [t |-> "ExprStmt", X |-> x]
FuncDecl(body)      == [t |-> "FuncDecl", Body |-> body]
ImportSpec(name, q, path) ==
    [t |-> "ImportSpec", Name |-> name, Path |-> StringLit(q, path)]
ImportDecl(specs, paren) ==
    [t |-> "GenDecl", Tok |-> "IMPORT", Specs |-> specs, Lparen |-> paren]
DstFile(decls)      == [t |-> "File", Decls |-> decls]

\* strconv.Unquote: the string a literal's text denotes, or an error
Unquote(v) == [ok |-> v.q \in {"dq", "raw"}, s |-> v.s]

\* strconv.Quote and fmt.Sprintf("%q", s): the double-quoted text of s
Quote(s) == [q |-> "dq", s |-> s]

\* strings.HasSuffix(s, suffix)
HasSuffix(s, suffix) ==
    /\ Len(s) >= Len(suffix)
    /\ SubSeq(s, Len(s) - Len(suffix) + 1, Len(s)) = suffix

\* strings.TrimRight(s, cutset): s without its trailing characters of cutset
RECURSIVE TrimRight(_, _)
TrimRight(s, cutset) ==
    IF Len(s) > 0 /\ s[Len(s)] \in cutset
    THEN TrimRight(SubSeq(s, 1, Len(s) - 1), cutset)
    ELSE s

\* newPkgErrorsDstProcessor: the fields of the rule
pkgPath        == <<"github.com/pkg/errors">>
errorsIdent    == "errors"
withStackIdent == "WithStack"
causeIdent     == "Cause"
newIdent       == "New"
errorfIdent    == "Errorf"
wrapfIdent     == "Wrapf"
errIdent       == "err"
nilIdent       == "nil"
\* the path of the standard package, as EndProcess spells it
stdErrorsPath  == <<"errors">>

\* dst.go
isName(n, name) == n.t = "Ident" /\ n.Name = name

\* dst.go (identifiers of the model are unresolved ones: Obj == nil)
isTopName(n, name) == n.t = "Ident" /\ n.Name = name

isPkgSelector(n, pkg, name) ==
    n.t = "SelectorExpr" /\ isTopName(n.X, pkg) /\ n.Sel.Name = name

importPath(spec) ==
    LET u == Unquote(spec.Path.Value) IN IF u.ok THEN u.s ELSE <<>>

\* getImports: the places in f.Decls of the top-level import declarations
getImports(file) ==
    {i \in 1..Len(file.Decls) : file.Decls[i].t = "GenDecl" /\ file.Decls[i].Tok = "IMPORT"}

\* every <<declaration, spec>> place of an import of ipath
ImportPlaces(file, ipath) ==
    UNION {{<<i, j>> : j \in {k \in 1..Len(file.Decls[i].Specs) :
                                  importPath(file.Decls[i].Specs[k]) = ipath}} :
           i \in getImports(file)}

LastPlace(S) ==
    CHOOSE pl \in S : \A o \in S :
        pl[1] > o[1] \/ (pl[1] = o[1] /\ pl[2] >= o[2])

\* the smallest place of a set of places, in source order
FirstPlace(S) ==
    CHOOSE pl \in S : \A o \in S :
        pl[1] < o[1] \/ (pl[1] = o[1] /\ pl[2] <= o[2])

\* findImportByPath: the first import spec of ipath, <<0, 0>> for nil
findImportByPath(file, ipath) ==
    IF ImportPlaces(file, ipath) = {} THEN <<0, 0>>
    ELSE FirstPlace(ImportPlaces(file, ipath))

\* addImport(f, ipath, "", imports)
addImport(file, ipath) ==
    LET imp == ImportSpec("", Quote(ipath).q, ipath)
        imports == getImports(file)
    IN  IF imports # {}
        THEN LET first == CHOOSE i \in imports : \A j \in imports : i <= j
             IN [file EXCEPT !.Decls[first].Specs = Append(@, imp)]
        ELSE [file EXCEPT !.Decls = <<ImportDecl(<<imp>>, TRUE)>> \o @]

(***************************************************************************)
(* Part II.  The rule pkgErrorsDstProcessor.   Each fix returns the node   *)
(* as it leaves it (n) and whether it reported a change (changed).         *)
(***************************************************************************)
Same(n)    == [n |-> n, changed |-> FALSE]
Changed(n) == [n |-> n, changed |-> TRUE]

\* errors.WithStack(err)
withStackExpr ==
    CallExpr(SelectorExpr(Ident(errorsIdent), withStackIdent), <<Ident(errIdent)>>)

\* causeExpr: errors.Cause(err)
causeExpr ==
    CallExpr(SelectorExpr(Ident(errorsIdent), causeIdent), <<Ident(errIdent)>>)

fixReturnStmtAnyLast(n) ==
    IF Len(n.Results) = 0 THEN Same(n)
    ELSE Changed([n EXCEPT !.Results[Len(n.Results)] = withStackExpr])

fixReturnStmtEveryErr(n) ==
    LET results == [i \in 1..Len(n.Results) |->
                       IF isName(n.Results[i], errIdent) THEN withStackExpr
                       ELSE n.Results[i]]
    IN  IF results = n.Results THEN Same(n)
        ELSE Changed([n EXCEPT !.Results = results])

fixReturnStmt(n) ==
    IF Len(n.Results) = 0 THEN Same(n)
    ELSE IF ~isName(n.Results[Len(n.Results)], errIdent) THEN Same(n)
    ELSE Changed([n EXCEPT !.Results[Len(n.Results)] = withStackExpr])

compareErrAnyY(cond, yIsNil) ==
    isName(cond.X, errIdent) /\ cond.Op \in {"==", "!="}

\* the closure compareErr of fixIfStmt
compareErr(cond, yIsNil) ==
    IF ~(isName(cond.X, errIdent) /\ cond.Op \in {"==", "!="}) THEN FALSE
    ELSE \/ (yIsNil /\ isName(cond.Y, nilIdent))
         \/ (~yIsNil /\ ~isName(cond.Y, nilIdent))

fixIfStmt(n) ==
    IF n.Cond.t # "BinaryExpr" THEN Same(n)
    ELSE IF compareErr(n.Cond, FALSE)
    THEN Changed([n EXCEPT !.Cond.X = causeExpr])
    ELSE IF /\ n.Cond.Op \in {"&&", "||"}
            /\ n.Cond.X.t = "BinaryExpr" /\ compareErr(n.Cond.X, TRUE)
            /\ n.Cond.Y.t = "BinaryExpr" /\ compareErr(n.Cond.Y, FALSE)
    THEN Changed([n EXCEPT !.Cond.Y.X = causeExpr])
    ELSE Same(n)

fixTypeAssertExpr(n) ==
    IF ~isName(n.X, errIdent) THEN Same(n)
    ELSE Changed([n EXCEPT !.X = causeExpr])

wrapfArgsTrimOne(args, format) ==
    LET cut == SubSeq(format, 1, Len(format) - 2)
        newFormat == IF Len(cut) > 0 /\ cut[Len(cut)] \in {" ", ":", ","}
                     THEN SubSeq(cut, 1, Len(cut) - 1) ELSE cut
    IN  <<args[Len(args)], [t |-> "BasicLit", Kind |-> "STRING", Value |-> Quote(newFormat)]>>
            \o SubSeq(args, 2, Len(args) - 1)

\* the arguments of the rewritten call: err, the trimmed format, a1 .. ak
wrapfArgs(args, format) ==
    LET newFormat == TrimRight(SubSeq(format, 1, Len(format) - 2), {" ", ":", ","})
    IN  <<args[Len(args)], [t |-> "BasicLit", Kind |-> "STRING", Value |-> Quote(newFormat)]>>
            \o SubSeq(args, 2, Len(args) - 1)

fixCallExprAnyFirstArg(n) ==
    IF isPkgSelector(n.Fun, errorsIdent, newIdent) THEN Changed(n)
    ELSE IF ~isPkgSelector(n.Fun, "fmt", "Errorf") THEN Same(n)
    ELSE IF /\ Len(n.Args) >= 2
            /\ n.Args[1].t = "BasicLit" /\ n.Args[1].Kind = "STRING"
            /\ isName(n.Args[Len(n.Args)], errIdent)
            /\ HasSuffix(Unquote(n.Args[1].Value).s, <<"%", "v">>)
    THEN Changed([n EXCEPT
            !.Args = wrapfArgs(n.Args, Unquote(n.Args[1].Value).s),
            !.Fun = SelectorExpr(Ident(errorsIdent), wrapfIdent)])
    ELSE Changed([n EXCEPT !.Fun = SelectorExpr(Ident(errorsIdent), errorfIdent)])

fixCallExpr(n) ==
    IF isPkgSelector(n.Fun, errorsIdent, newIdent) THEN Changed(n)
    ELSE IF ~isPkgSelector(n.Fun, "fmt", "Errorf") THEN Same(n)
    ELSE IF Len(n.Args) = 0 THEN Same(n)
    ELSE IF ~(n.Args[1].t = "BasicLit" /\ n.Args[1].Kind = "STRING") THEN Same(n)
    ELSE IF ~Unquote(n.Args[1].Value).ok THEN Same(n)
    ELSE LET format == Unquote(n.Args[1].Value).s IN
         IF /\ Len(n.Args) >= 2
            /\ isName(n.Args[Len(n.Args)], errIdent)
            /\ HasSuffix(format, <<"%", "v">>)
         THEN Changed([n EXCEPT
                 !.Args = wrapfArgs(n.Args, format),
                 !.Fun = SelectorExpr(Ident(errorsIdent), wrapfIdent)])
         ELSE Changed([n EXCEPT
                 !.Fun = SelectorExpr(Ident(errorsIdent), errorfIdent)])

\* pkgErrorsDstProcessor.Process: the type switch on the node
RuleProcess(n) ==
    CASE n.t = "ReturnStmt"     -> fixReturnStmt(n)
      [] n.t = "IfStmt"         -> fixIfStmt(n)
      [] n.t = "TypeAssertExpr" -> fixTypeAssertExpr(n)
      [] n.t = "CallExpr"       -> fixCallExpr(n)
      [] OTHER                  -> Same(n)

(***************************************************************************)
(* dst.Inspect(df, func(n) bool { err = dp.Process(ctx, n); ... }): the    *)
(* callback runs on a node first and the walk then descends into the       *)
(* children of the node as the callback left it.  changed is p.changed,    *)
(* the disjunction over all nodes visited.                                 *)
(***************************************************************************)
RECURSIVE Inspect(_)
RECURSIVE InspectList(_)
InspectList(l) ==
    IF Len(l) = 0 THEN [l |-> <<>>, changed |-> FALSE]
    ELSE LET h == Inspect(Head(l))
             r == InspectList(Tail(l))
         IN  [l |-> <<h.n>> \o r.l, changed |-> h.changed \/ r.changed]

Inspect(node) ==
    LET p == RuleProcess(node)
        m == p.n
    IN  CASE m.t \in {"File"} ->
               LET d == InspectList(m.Decls)
               IN  [n |-> [m EXCEPT !.Decls = d.l], changed |-> p.changed \/ d.changed]
          [] m.t \in {"FuncDecl"} ->
               LET b == InspectList(m.Body)
               IN  [n |-> [m EXCEPT !.Body = b.l], changed |-> p.changed \/ b.changed]
          [] m.t = "ReturnStmt" ->
               LET r == InspectList(m.Results)
               IN  [n |-> [m EXCEPT !.Results = r.l], changed |-> p.changed \/ r.changed]
          [] m.t = "IfStmt" ->
               LET c == Inspect(m.Cond)
                   b == InspectList(m.Body)
               IN  [n |-> [m EXCEPT !.Cond = c.n, !.Body = b.l],
                    changed |-> p.changed \/ c.changed \/ b.changed]
          [] m.t = "ExprStmt" ->
               LET x == Inspect(m.X)
               IN  [n |-> [m EXCEPT !.X = x.n], changed |-> p.changed \/ x.changed]
          [] m.t = "BinaryExpr" ->
               LET x == Inspect(m.X)
                   y == Inspect(m.Y)
               IN  [n |-> [m EXCEPT !.X = x.n, !.Y = y.n],
                    changed |-> p.changed \/ x.changed \/ y.changed]
          [] m.t = "TypeAssertExpr" ->
               LET x == Inspect(m.X)
               IN  [n |-> [m EXCEPT !.X = x.n], changed |-> p.changed \/ x.changed]
          [] m.t = "CallExpr" ->
               LET fun == Inspect(m.Fun)
                   a == InspectList(m.Args)
               IN  [n |-> [m EXCEPT !.Fun = fun.n, !.Args = a.l],
                    changed |-> p.changed \/ fun.changed \/ a.changed]
          [] m.t = "SelectorExpr" ->
               LET x == Inspect(m.X)
               IN  [n |-> [m EXCEPT !.X = x.n], changed |-> p.changed \/ x.changed]
          [] OTHER -> p

EndProcessResultNoLookup(file, pc) ==
    IF ~pc THEN [f |-> file, ok |-> FALSE]
    ELSE [f |-> addImport(file, pkgPath), ok |-> TRUE]

\* pkgErrorsDstProcessor.EndProcess(ctx, f) for a rule whose p.changed is pc:
\* the file as it leaves it and the boolean it returns
EndProcessResult(file, pc) ==
    IF ~pc THEN [f |-> file, ok |-> FALSE]
    ELSE IF findImportByPath(file, pkgPath) # <<0, 0>> THEN [f |-> file, ok |-> TRUE]
    ELSE LET imp == findImportByPath(file, stdErrorsPath) IN
         IF imp # <<0, 0>>
         THEN [f |-> [file EXCEPT !.Decls[imp[1]].Specs[imp[2]] =
                         [@ EXCEPT !.Name = "", !.Path.Value = Quote(pkgPath)]],
               ok |-> TRUE]
         ELSE [f |-> addImport(file, pkgPath), ok |-> TRUE]

(***************************************************************************)
(* Error values.  An error is identified by where it comes from.           *)
(***************************************************************************)
Pending      == [kind |-> "pending", id |-> 0]   \* Process has not returned
Nil          == [kind |-> "nil", id |-> 0]
ReadError    == [kind |-> "read", id |-> 0]      \* e.r.Read failed
UnitError(i) == [kind |-> "unit", id |-> i]      \* fn(f) of unit i failed

(***************************************************************************)
(* Part III.  ErrFix.Process                                               *)
(***************************************************************************)
PipeStart ==
    /\ epc = "read"
    /\ numFiles \in 0..MaxFiles
    /\ sent = 0
    /\ closed = FALSE
    /\ recv = 0
    /\ started = 0
    /\ active = {}
    /\ gErr = Nil
    /\ ret = Pending
    /\ firstFail = 0
    /\ laterFail = FALSE
    /\ recvAtFail = 0

\* ch, err := e.r.Read(ctx); if err != nil { return err }
ReadFails ==
    /\ epc = "read"
    /\ epc' = "done"
    /\ ret' = ReadError
    /\ UNCHANGED <<numFiles, sent, closed, recv, started, active, gErr,
                   firstFail, laterFail, recvAtFail,
                   procVars, mainVars, readerVars>>

\* Read succeeded: go r.read(ctx, ch) is running, the loop is entered
ReadOk ==
    /\ epc = "read"
    /\ epc' = "select"
    /\ UNCHANGED <<numFiles, sent, closed, recv, started, active, gErr, ret,
                   firstFail, laterFail, recvAtFail,
                   procVars, mainVars, readerVars>>

\* reader.read: ch <- f, blocking while the buffer of ch is full
ReaderSend ==
    /\ epc \notin {"read"}
    /\ ~closed
    /\ sent < numFiles
    /\ sent - recv < ChanCap
    /\ sent' = sent + 1
    /\ UNCHANGED <<epc, numFiles, closed, recv, started, active, gErr, ret,
                   firstFail, laterFail, recvAtFail,
                   procVars, mainVars, readerVars>>

\* reader.read: defer close(ch)
ReaderClose ==
    /\ epc \notin {"read"}
    /\ ~closed
    /\ sent = numFiles
    /\ closed' = TRUE
    /\ UNCHANGED <<epc, numFiles, sent, recv, started, active, gErr, ret,
                   firstFail, laterFail, recvAtFail,
                   procVars, mainVars, readerVars>>

\* select: case f, ok := <-ch with ok = true.
\* (The other case, err = <-errCh, is never ready: nothing sends on errCh.)
SelectRecv ==
    /\ epc = "select"
    /\ recv < sent
    /\ recv' = recv + 1
    /\ epc' = "go"
    /\ UNCHANGED <<numFiles, sent, closed, started, active, gErr, ret,
                   firstFail, laterFail, recvAtFail,
                   procVars, mainVars, readerVars>>

\* select: case f, ok := <-ch with ok = false: break LOOP; err is still the
\* nil of e.r.Read, so "if err != nil" falls through to wg.Wait()
SelectClosed ==
    /\ epc = "select"
    /\ recv = sent
    /\ closed
    /\ epc' = "wait"
    /\ UNCHANGED <<numFiles, sent, closed, recv, started, active, gErr, ret,
                   firstFail, laterFail, recvAtFail,
                   procVars, mainVars, readerVars>>

SemFreeUnlimited == TRUE

\* wg.SetLimit(8): wg.Go blocks while 8 units hold a slot
SemFree == Cardinality(active) < Limit

\* wg.Go(func() error { return fn(f) })
Go ==
    /\ epc = "go"
    /\ SemFree
    /\ started' = started + 1
    /\ active' = active \cup {started + 1}
    /\ epc' = "select"
    /\ UNCHANGED <<numFiles, sent, closed, recv, gErr, ret,
                   firstFail, laterFail, recvAtFail,
                   procVars, mainVars, readerVars>>

\* DiffWriter.Write: w.buf.WriteString(text), where text is empty when the
\* two contents are equal
WriteString(b, i) == IF i \in differs THEN Append(b, i) ELSE b

\* fn(f) returns nil: Processor.Process and Writer.Write both succeeded
UnitOk(i) ==
    /\ i \in active
    /\ active' = active \ {i}
    /\ buf' = WriteString(buf, i)
    /\ UNCHANGED <<epc, numFiles, sent, closed, recv, started, gErr, ret,
                   firstFail, laterFail, recvAtFail,
                   procVars,
                   mpc, quiet, write, setExitStatus, differs, stdout, stderr, exitCode,
                   readerVars>>

\* errgroup: g.errOnce.Do(func() { g.err = err })
ErrOnce(g, e) == IF g = Nil THEN e ELSE g

\* fn(f) returns an error before anything is written to buf: f.Error was
\* set, or Process failed, or the diff could not be generated
UnitFail(i) ==
    /\ i \in active
    /\ active' = active \ {i}
    /\ gErr' = ErrOnce(gErr, UnitError(i))
    /\ firstFail' = IF firstFail = 0 THEN i ELSE firstFail
    /\ laterFail' = (laterFail \/ firstFail # 0)
    /\ recvAtFail' = IF firstFail = 0 THEN recv ELSE recvAtFail
    /\ UNCHANGED <<epc, numFiles, sent, closed, recv, started, ret,
                   procVars, mainVars, readerVars>>

WaitReadyNoJoin == TRUE

\* wg.Wait() blocks until every unit has called done()
WaitReady == active = {}

\* return wg.Wait()
Wait ==
    /\ epc = "wait"
    /\ WaitReady
    /\ ret' = gErr
    /\ epc' = "done"
    /\ UNCHANGED <<numFiles, sent, closed, recv, started, active, gErr,
                   firstFail, laterFail, recvAtFail,
                   procVars, mainVars, readerVars>>

PipeNext ==
    \/ ReadFails
    \/ ReadOk
    \/ ReaderSend
    \/ ReaderClose
    \/ SelectRecv
    \/ SelectClosed
    \/ Go
    \/ \E i \in 1..MaxFiles : UnitOk(i)
    \/ \E i \in 1..MaxFiles : UnitFail(i)
    \/ Wait

(***************************************************************************)
(* Part IV.  Processor.Process.  The content of a File is the tree its     *)
(* text parses to and the layout of the text: "gofmt" when the text is     *)
(* what the printer produces for the tree, "raw" when it is laid out       *)
(* otherwise.  ok is whether the text parses.                              *)
(***************************************************************************)
Content(tree, layout) == [ok |-> TRUE, tree |-> tree, layout |-> layout]
BadContent == [ok |-> FALSE, tree |-> DstFile(<<>>), layout |-> "raw"]
File(name, content, error) == [Name |-> name, Content |-> content, Error |-> error]
NoFile == File("", BadContent, Nil)
ParseError == [kind |-> "parse", id |-> 0]

\* decorator.Fprint(buf, df); buf.String(): the printer lays the tree out anew
Fprint(tree) == Content(tree, "gofmt")

ProcStart(contents) ==
    /\ ppc = "start"
    /\ f \in {File("a.go", c, Nil) : c \in contents \cup {BadContent}}
    /\ df = DstFile(<<>>)
    /\ pchanged = FALSE
    /\ changed = FALSE
    /\ f2 = NoFile
    /\ perr = Nil
    /\ run = 1

ProcIdle ==
    /\ ppc = "idle"
    /\ f = NoFile
    /\ df = DstFile(<<>>)
    /\ pchanged = FALSE
    /\ changed = FALSE
    /\ f2 = NoFile
    /\ perr = Nil
    /\ run = 0

PipeIdle ==
    /\ epc = "idle"
    /\ numFiles = 0
    /\ sent = 0
    /\ closed = FALSE
    /\ recv = 0
    /\ started = 0
    /\ active = {}
    /\ gErr = Nil
    /\ ret = Pending
    /\ firstFail = 0
    /\ laterFail = FALSE
    /\ recvAtFail = 0

\* df, err := decorator.ParseFile(...) succeeds; changed := false;
\* dps := newDstProcessors() makes a fresh rule
ParseFile ==
    /\ ppc = "start"
    /\ f.Content.ok
    /\ df' = f.Content.tree
    /\ changed' = FALSE
    /\ pchanged' = FALSE
    /\ ppc' = "parsed"
    /\ UNCHANGED <<f, f2, perr, run, pipeVars, mainVars, readerVars>>

\* decorator.ParseFile fails: return nil, "error parsing ast"
ParseFails ==
    /\ ppc = "start"
    /\ ~f.Content.ok
    /\ perr' = ParseError
    /\ ppc' = "failed"
    /\ UNCHANGED <<f, df, pchanged, changed, f2, run, pipeVars, mainVars, readerVars>>

\* dst.Inspect(df, ...) with the rule's Process as the callback
InspectTree ==
    /\ ppc = "parsed"
    /\ LET r == Inspect(df) IN
          /\ df' = r.n
          /\ pchanged' = (pchanged \/ r.changed)
    /\ ppc' = "visited"
    /\ UNCHANGED <<f, changed, f2, perr, run, pipeVars, mainVars, readerVars>>

\* ok, err := dp.EndProcess(ctx, df); changed = changed || ok
EndProcess ==
    /\ ppc = "visited"
    /\ LET e == EndProcessResult(df, pchanged) IN
          /\ df' = e.f
          /\ changed' = (changed \/ e.ok)
    /\ ppc' = "finalized"
    /\ UNCHANGED <<f, pchanged, f2, perr, run, pipeVars, mainVars, readerVars>>

MustRenderAlways == TRUE

\* if !changed { return a copy of f } else { render }
MustRender == changed

\* return &File{Name: f.Name, Content: f.Content, Error: nil}, nil
ReturnUnchanged ==
    /\ ppc = "finalized"
    /\ ~MustRender
    /\ f2' = File(f.Name, f.Content, Nil)
    /\ ppc' = "unchanged"
    /\ UNCHANGED <<f, df, pchanged, changed, perr, run, pipeVars, mainVars, readerVars>>

\* decorator.Fprint(buf, df); return &File{Name: f.Name, Content: buf.String()}
Render ==
    /\ ppc = "finalized"
    /\ MustRender
    /\ f2' = File(f.Name, Fprint(df), Nil)
    /\ ppc' = "rendered"
    /\ UNCHANGED <<f, df, pchanged, changed, perr, run, pipeVars, mainVars, readerVars>>

\* Processor.Process is called again, on the File the previous call returned
Rerun ==
    /\ ppc \in {"unchanged", "rendered"}
    /\ run < MaxRuns
    /\ f' = f2
    /\ f2' = NoFile
    /\ df' = DstFile(<<>>)
    /\ pchanged' = FALSE
    /\ changed' = FALSE
    /\ run' = run + 1
    /\ ppc' = "start"
    /\ UNCHANGED <<perr, pipeVars, mainVars, readerVars>>

ProcNext ==
    \/ ParseFile
    \/ ParseFails
    \/ InspectTree
    \/ EndProcess
    \/ ReturnUnchanged
    \/ Render
    \/ Rerun

(***************************************************************************)
(* Part V.  The command errfix: main builds a DiffWriter, runs             *)
(* ErrFix.Process and reports.  The text of a diff is identified by the    *)
(* unit that wrote it; an empty text leaves buf as it is.                  *)
(***************************************************************************)
MainIdle ==
    /\ mpc = "idle"
    /\ quiet = FALSE
    /\ write = FALSE
    /\ setExitStatus = FALSE
    /\ differs = {}
    /\ buf = <<>>
    /\ stdout = <<>>
    /\ stderr = <<>>
    /\ exitCode = -1

\* flag.Parse(); w := errfix.NewDiffWriter(*write); ef.Process(...) is entered
MainStart ==
    /\ mpc = "process"
    /\ quiet \in BOOLEAN
    /\ write \in BOOLEAN
    /\ setExitStatus \in BOOLEAN
    /\ numFiles <= MaxMainFiles
    /\ differs \in SUBSET (1..numFiles)
    /\ buf = <<>>
    /\ stdout = <<>>
    /\ stderr = <<>>
    /\ exitCode = -1

\* DiffWriter.Write with w.write set and a diff: the text is in buf, then
\* os.WriteFile fails and fn returns its error
UnitWriteFails(i) ==
    /\ i \in active
    /\ write
    /\ i \in differs
    /\ buf' = WriteString(buf, i)
    /\ active' = active \ {i}
    /\ gErr' = ErrOnce(gErr, UnitError(i))
    /\ firstFail' = IF firstFail = 0 THEN i ELSE firstFail
    /\ laterFail' = (laterFail \/ firstFail # 0)
    /\ recvAtFail' = IF firstFail = 0 THEN recv ELSE recvAtFail
    /\ UNCHANGED <<epc, numFiles, sent, closed, recv, started, ret,
                   procVars,
                   mpc, quiet, write, setExitStatus, differs, stdout, stderr, exitCode,
                   readerVars>>

\* w.DiffString()
DiffString == buf

MainFailFlush ==
    /\ mpc = "process"
    /\ epc = "done"
    /\ ret # Nil
    /\ stderr' = Append(stderr, ret)
    /\ stdout' = IF ~quiet THEN stdout \o DiffString ELSE stdout
    /\ exitCode' = 1
    /\ mpc' = "exited"
    /\ UNCHANGED <<pipeVars, procVars, quiet, write, setExitStatus, differs, buf,
                   readerVars>>

\* if err != nil { fmt.Fprintf(os.Stderr, "%s\n", err); os.Exit(1) }
MainFail ==
    /\ mpc = "process"
    /\ epc = "done"
    /\ ret # Nil
    /\ stderr' = Append(stderr, ret)
    /\ exitCode' = 1
    /\ mpc' = "exited"
    /\ UNCHANGED <<pipeVars, procVars, quiet, write, setExitStatus, differs, buf,
                   stdout, readerVars>>

\* diff := w.DiffString(); if !*quiet { fmt.Fprint(os.Stdout, diff) };
\* if diff != "" && *setExitStatus { os.Exit(1) }; main returns
MainReport ==
    /\ mpc = "process"
    /\ epc = "done"
    /\ ret = Nil
    /\ stdout' = IF ~quiet THEN stdout \o DiffString ELSE stdout
    /\ exitCode' = IF DiffString # <<>> /\ setExitStatus THEN 1 ELSE 0
    /\ mpc' = "exited"
    /\ UNCHANGED <<pipeVars, procVars, quiet, write, setExitStatus, differs, buf,
                   stderr, readerVars>>

MainNext ==
    \/ ReadFails
    \/ ReadOk
    \/ ReaderSend
    \/ ReaderClose
    \/ SelectRecv
    \/ SelectClosed
    \/ Go
    \/ \E i \in 1..MaxFiles : UnitOk(i)
    \/ \E i \in 1..MaxFiles : UnitFail(i)
    \/ \E i \in 1..MaxFiles : UnitWriteFails(i)
    \/ Wait
    \/ MainFail
    \/ MainReport

(***************************************************************************)
(* Part VI.  The reader.  A path is a record of its directory, name and    *)
(* extension; the name of a File is a path with the number formatName      *)
(* appends to it (0: none).  The file system is the set of the paths that  *)
(* exist; paths can disappear while reader.read runs.                      *)
(***************************************************************************)
Path(dir, name, ext) == [dir |-> dir, name |-> name, ext |-> ext, n |-> 0]
NoPath  == Path("", "", "")
pathA   == Path("", "a", "go")          \* a.go, a regular file
pathD   == Path("", "d", "")            \* d, a directory of a.go and b.txt
Paths   == {pathA, pathD}

\* fileInfo.IsDir()
IsDir(p) == p = pathD

\* what filepath.Walk(dir, ...) visits that is not a directory, in order
WalkFiles(dir) == <<Path(dir.name, "a", "go"), Path(dir.name, "b", "txt")>>

\* the inputs of NewReader: *os.File, io.Reader, a string, anything else
OsFileInput    == [k |-> "*os.File", p |-> Path("", "stdin", "")]
ReaderInput    == [k |-> "io.Reader", p |-> Path("", "io.Reader", "")]
StringInput(p) == [k |-> "string", p |-> p]
OtherInput     == [k |-> "other", p |-> NoPath]
InputPool == {OsFileInput, ReaderInput, OtherInput} \cup {StringInput(p) : p \in Paths}

StatError   == [kind |-> "stat", id |-> 0]      \* os.Stat failed
IOError     == [kind |-> "io", id |-> 0]        \* io.ReadAll, os.ReadFile failed
WalkError   == [kind |-> "walk", id |-> 0]      \* filepath.Walk failed
NoSourceError      == [kind |-> "no source to read", id |-> 0]
InvalidSourceError == [kind |-> "not a valid file or directory", id |-> 0]
UnsupportedSourceError == [kind |-> "only supports *os.File, io.Reader and string", id |-> 0]

ReaderIdle ==
    /\ rpc = "idle"
    /\ inputs = <<>>
    /\ fs0 = {}
    /\ fs = {}
    /\ ri = 0
    /\ fi = 0
    /\ out = <<>>
    /\ src = <<>>
    /\ stats = <<>>
    /\ units = <<>>
    /\ rret = Pending

\* NewReader(inputs...) on some file system
ReaderStart ==
    /\ rpc = "start"
    /\ inputs \in SeqsUpTo(InputPool, MaxInputs)
    /\ fs0 \in SUBSET Paths
    /\ fs = fs0
    /\ ri = 0
    /\ fi = 0
    /\ out = <<>>
    /\ src = <<>>
    /\ stats = <<>>
    /\ units = <<>>
    /\ rret = Pending

\* the error of the loop of reader.Read for one input, Nil for none
CheckInput(in, exists) ==
    CASE in.k \in {"*os.File", "io.Reader"} -> Nil
      [] in.k = "string" -> IF in.p \in exists THEN Nil ELSE InvalidSourceError
      [] OTHER -> UnsupportedSourceError

ReadResultSkipStat(ins, exists) ==
    IF Len(ins) = 0 THEN NoSourceError
    ELSE LET bad == {i \in 1..Len(ins) : ins[i].k = "other"}
         IN  IF bad = {} THEN Nil ELSE UnsupportedSourceError

\* the error reader.Read returns: that of the first input the loop rejects
ReadResult(ins, exists) ==
    IF Len(ins) = 0 THEN NoSourceError
    ELSE LET bad == {i \in 1..Len(ins) : CheckInput(ins[i], exists) # Nil}
         IN  IF bad = {} THEN Nil
             ELSE CheckInput(ins[CHOOSE i \in bad : \A j \in bad : i <= j], exists)

\* formatName(s): s, or s#i from the second name formatted on
formatName(s, i) == [s EXCEPT !.n = i]

\* readPath(ctx, ch, p): the Files it may send
readPath(p) ==
    IF p.ext # "go" THEN {<<>>}
    ELSE {<<File(p, "src", Nil)>>, <<File(p, "", IOError)>>}

\* readDir(ctx, ch, dir): the Files it may send; the walk may fail at its
\* start, or after the files were read
readDir(dir) ==
    LET walked == {a \o b : a \in readPath(WalkFiles(dir)[1]),
                            b \in readPath(WalkFiles(dir)[2])}
        failed == <<File(dir, "", WalkError)>>
    IN  walked \cup {w \o failed : w \in walked} \cup {failed}

\* what os.Stat(p) finds in reader.read
Stat(in, exists) ==
    IF in.k # "string" THEN "none"
    ELSE IF in.p \notin exists THEN "error"
    ELSE IF IsDir(in.p) THEN "dir" ELSE "file"

\* one turn of the loop of reader.read: the Files it may send for an input
readOne(in, exists, i) ==
    CASE in.k \in {"*os.File", "io.Reader"} ->
            { <<File(formatName(in.p, i), c, IF c = "src" THEN Nil ELSE IOError)>> :
                c \in {"src", "part", ""} }
      [] in.k = "string" ->
            IF Stat(in, exists) = "error" THEN {<<File(in.p, "", StatError)>>}
            ELSE IF Stat(in, exists) = "dir" THEN readDir(in.p)
            ELSE readPath(in.p)
      [] OTHER -> {<<>>}

\* r.Read(ctx): the checks of the inputs, then go r.read(ctx, ch)
Read ==
    /\ rpc = "start"
    /\ rret' = ReadResult(inputs, fs0)
    /\ rpc' = IF rret' = Nil THEN "reading" ELSE "failed"
    /\ ri' = 1
    /\ UNCHANGED <<inputs, fs0, fs, fi, out, src, stats, units,
                   pipeVars, procVars, mainVars>>

\* a path is removed while reader.read runs
Remove(p) ==
    /\ rpc = "reading"
    /\ p \in fs
    /\ fs' = fs \ {p}
    /\ UNCHANGED <<rpc, inputs, fs0, ri, fi, out, src, stats, units, rret,
                   pipeVars, procVars, mainVars>>

\* reader.read: one turn of the loop, sending on ch while there is room
readInput ==
    /\ rpc = "reading"
    /\ ri <= Len(inputs)
    /\ \E files \in readOne(inputs[ri], fs, fi) :
          /\ Len(out) + Len(files) - Len(units) <= ChanCap
          /\ out' = out \o files
          /\ src' = src \o [k \in 1..Len(files) |-> ri]
    /\ stats' = Append(stats, Stat(inputs[ri], fs))
    /\ fi' = IF inputs[ri].k \in {"*os.File", "io.Reader"} THEN fi + 1 ELSE fi
    /\ ri' = ri + 1
    /\ UNCHANGED <<rpc, inputs, fs0, fs, units, rret,
                   pipeVars, procVars, mainVars>>

\* reader.read returns: defer close(ch)
readClose ==
    /\ rpc = "reading"
    /\ ri > Len(inputs)
    /\ rpc' = "closed"
    /\ UNCHANGED <<inputs, fs0, fs, ri, fi, out, src, stats, units, rret,
                   pipeVars, procVars, mainVars>>

\* fn(f): if f.Error != nil { return "error while reading from f.Name, f.Error" }
fnReadError(file) ==
    IF file.Error # Nil
    THEN [kind |-> "error while reading", name |-> file.Name, cause |-> file.Error]
    ELSE [kind |-> "none", name |-> file.Name, cause |-> Nil]

\* ErrFix.Process takes the next File from ch and its unit runs the test
fnReceive ==
    /\ rpc \in {"reading", "closed"}
    /\ Len(units) < Len(out)
    /\ units' = Append(units, fnReadError(out[Len(units) + 1]))
    /\ UNCHANGED <<rpc, inputs, fs0, fs, ri, fi, out, src, stats, rret,
                   pipeVars, procVars, mainVars>>

ReaderNext ==
    \/ Read
    \/ \E p \in Paths : Remove(p)
    \/ readInput
    \/ readClose
    \/ fnReceive

(***************************************************************************)
(* Input files.                                                            *)
(***************************************************************************)
err  == Ident(errIdent)
nil  == Ident(nilIdent)
ErrNotFound == Ident("ErrNotFound")
x    == Ident("x")
one  == IntLit(<<"1">>)
fmtErrorf == SelectorExpr(Ident("fmt"), "Errorf")
errorsNew == SelectorExpr(Ident(errorsIdent), newIdent)

\* a file: its import declarations, then one function with the statements
FileTree(imports, stmts) == DstFile(imports \o <<FuncDecl(stmts)>>)

\* the first statement of the function of a file
TheStmt(tree) == tree.Decls[Len(tree.Decls)].Body[1]

\* statements showing each of the five shapes, and statements showing none
StmtPool ==
    { ReturnStmt(<<err>>),
      ReturnStmt(<<one, err>>),
      ReturnStmt(<<nil>>),
      IfStmt(BinaryExpr(err, "!=", ErrNotFound), <<ReturnStmt(<<err>>)>>),
      IfStmt(BinaryExpr(err, "==", nil), <<ReturnStmt(<<nil>>)>>),
      IfStmt(BinaryExpr(BinaryExpr(err, "!=", nil), "&&",
                        BinaryExpr(err, "!=", ErrNotFound)), <<>>),
      ExprStmt(TypeAssertExpr(err, Ident("CustomError"))),
      ExprStmt(CallExpr(errorsNew, <<StringLit("dq", <<"a">>)>>)),
      ReturnStmt(<<CallExpr(fmtErrorf,
                     <<StringLit("raw", <<"a", ":", " ", "%", "v">>), err>>)>>),
      ExprStmt(CallExpr(fmtErrorf, <<StringLit("dq", <<"a", "%", "d">>), one>>)),
      ExprStmt(CallExpr(fmtErrorf, <<x>>)),
      ExprStmt(CallExpr(Ident("foo"), <<>>)) }

impBar      == ImportSpec("", "dq", <<"bar">>)
impFmt      == ImportSpec("", "dq", <<"fmt">>)
impErrors   == ImportSpec("", "dq", stdErrorsPath)
impErrorsAs == ImportSpec("stderrors", "raw", stdErrorsPath)
impPkg      == ImportSpec("", "dq", pkgPath)
impPkgAs    == ImportSpec("pkgerrors", "dq", pkgPath)

\* a few import layouts: none, one declaration, several declarations
SomeImports ==
    { <<>>,
      <<ImportDecl(<<impBar>>, FALSE)>>,
      <<ImportDecl(<<impBar, impErrors>>, TRUE)>>,
      <<ImportDecl(<<impPkg>>, TRUE)>>,
      <<ImportDecl(<<impFmt>>, FALSE), ImportDecl(<<impErrorsAs>>, FALSE)>>,
      <<ImportDecl(<<impBar>>, FALSE), ImportDecl(<<impFmt>>, TRUE)>> }

MixedContents ==
    { Content(FileTree(i, s), l) :
        i \in SomeImports, s \in SeqsUpTo(StmtPool, MaxStmts), l \in {"raw", "gofmt"} }

\* the import specs the layouts are made of
ImportPool == {impBar, impErrors, impErrorsAs, impPkg, impPkgAs}

\* every sequence of import declarations holding at most k specs in all
RECURSIVE ImportLayouts(_)
ImportLayouts(k) ==
    {<<>>} \cup
    UNION { { <<ImportDecl(d, Len(d) > 1)>> \o rest : rest \in ImportLayouts(k - Len(d)) } :
            d \in SeqsUpTo(ImportPool, k) \ {<<>>} }

\* function bodies with no match, one match and two matches
MatchBodies ==
    { <<>>,
      <<ReturnStmt(<<nil>>)>>,
      <<ReturnStmt(<<err>>)>>,
      <<ReturnStmt(<<err>>), ExprStmt(CallExpr(errorsNew, <<StringLit("dq", <<"a">>)>>))>> }

ImportContents ==
    { Content(FileTree(i, s), "gofmt") :
        i \in ImportLayouts(MaxImportSpecs), s \in MatchBodies }

\* the characters format strings are made of
FmtChars == {"a", " ", ":", ",", "%", "v"}

\* format strings: a few characters, with or without a final %v
Formats ==
    { p \o tail : p \in SeqsUpTo(FmtChars, MaxFmtLen), tail \in {<<>>, <<"%", "v">>} }

\* first arguments: string literals of both quoting styles, an identifier,
\* a literal that is no string
FirstArgs ==
    {StringLit("dq", s) : s \in Formats}
        \cup {StringLit("raw", s) : s \in SeqsUpTo(FmtChars, MaxFmtLen - 1)}
        \cup {x, one}

\* argument lists: none, or a first argument and a few more
CallArgs ==
    {<<>>} \cup
    { <<a>> \o rest : a \in FirstArgs, rest \in SeqsUpTo({err, x}, MaxExtraArgs) }

\* files whose function is one call of fmt.Errorf
CallContents ==
    { Content(FileTree(<<>>, <<ExprStmt(CallExpr(fmtErrorf, a))>>), "gofmt") :
        a \in CallArgs }

\* conditions: comparisons and connectives over err, nil and a sentinel,
\* nested once, and conditions that are no binary expression
CondAtoms == {err, nil, ErrNotFound}
CondOps == {"==", "!=", "&&", "||", "<"}
SimpleConds == {BinaryExpr(a, op, b) : a \in CondAtoms, op \in CondOps, b \in CondAtoms}
CondPool ==
    {BinaryExpr(a, op, b) :
        a \in CondAtoms \cup SimpleConds, op \in CondOps, b \in CondAtoms \cup SimpleConds}
        \cup {Ident("ok"), CallExpr(Ident("foo"), <<err>>)}

\* files whose function is one if statement
IfContents ==
    { Content(FileTree(<<>>, <<IfStmt(c, <<ReturnStmt(<<nil>>)>>)>>), "gofmt") :
        c \in CondPool }

\* result expressions: err, nil, and expressions that are not the identifier
\* err (one of them holds err, one is the call the rule puts in its place)
ResultPool == {err, nil, x, one, CallExpr(Ident("foo"), <<err>>), withStackExpr}

\* files whose function is one return statement
ReturnContents ==
    { Content(FileTree(<<>>, <<ReturnStmt(r)>>), "gofmt") :
        r \in SeqsUpTo(ResultPool, MaxResults) }

(***************************************************************************)
(* Specifications                                                          *)
(***************************************************************************)
\* ErrFix.Process with the work units' outcomes left open
PipeInit == PipeStart /\ ProcIdle /\ MainIdle /\ ReaderIdle
SpecPipe == PipeInit /\ [][PipeNext]_vars

\* Processor.Process on files mixing the shapes, run again on its own output
ProcInit == PipeIdle /\ ProcStart(MixedContents) /\ MainIdle /\ ReaderIdle
SpecProc == ProcInit /\ [][ProcNext]_vars

\* Processor.Process on files with every layout of a few import specs
ImportInit == PipeIdle /\ ProcStart(ImportContents) /\ MainIdle /\ ReaderIdle
SpecImports == ImportInit /\ [][ProcNext]_vars

\* Processor.Process on files holding one call of fmt.Errorf
CallInit == PipeIdle /\ ProcStart(CallContents) /\ MainIdle /\ ReaderIdle
SpecCall == CallInit /\ [][ProcNext]_vars

\* Processor.Process on files holding one if statement
IfInit == PipeIdle /\ ProcStart(IfContents) /\ MainIdle /\ ReaderIdle
SpecIf == IfInit /\ [][ProcNext]_vars

\* the command errfix on a few Files, some of which the processor changes
MainInit == PipeStart /\ ProcIdle /\ MainStart /\ ReaderIdle
SpecMain == MainInit /\ [][MainNext]_vars

\* the reader on a few inputs, with paths that exist or not
ReaderInit == PipeIdle /\ ProcIdle /\ MainIdle /\ ReaderStart
SpecReader == ReaderInit /\ [][ReaderNext]_vars

\* Processor.Process on files holding one return statement
ReturnInit == PipeIdle /\ ProcStart(ReturnContents) /\ MainIdle /\ ReaderIdle
SpecReturn == ReturnInit /\ [][ProcNext]_vars

(***************************************************************************)
(* Claims about ErrFix.Process                                             *)
(***************************************************************************)
\* C1 (as claimed): once a unit has returned an error, no File taken from the
\* stream after that first failure is handed to a new work unit: every unit
\* started belongs to a File that had been received when the first unit failed.
C1_NoSchedulingAfterFailure ==
    firstFail # 0 => started <= recvAtFail

\* C2: at most Limit = 8 work units are active at any time, and wg.Go cannot
\* start a unit (the scheduler is blocked holding its File) while 8 are active.
C2_AtMostLimitActive ==
    /\ Cardinality(active) <= Limit
    /\ (epc = "go" /\ Cardinality(active) = Limit) => ~ENABLED Go

\* C2 witness: a stream of more than 8 files, 8 units active, and the
\* scheduler holding the 9th File in wg.Go
C2_Witness ==
    /\ numFiles > Limit
    /\ epc = "go"
    /\ Cardinality(active) = Limit
    /\ started = Limit

\* C3: when Process has returned after a successful Read, every started unit
\* has settled; the error returned is that of the unit that failed first
\* (later failures are ignored); and it is nil exactly when no unit failed,
\* in which case the stream was drained and every File was given a unit.
C3_FirstErrorAfterJoin ==
    (epc = "done" /\ ret # ReadError) =>
        /\ active = {}
        /\ firstFail # 0 => ret = UnitError(firstFail)
        /\ firstFail = 0 =>
              /\ ret = Nil
              /\ closed /\ recv = numFiles /\ started = numFiles

\* C3 witness: Process has returned the first failing unit's error although
\* another unit failed later
C3_Witness ==
    /\ epc = "done"
    /\ firstFail # 0
    /\ laterFail
    /\ ret = UnitError(firstFail)

(***************************************************************************)
(* Claims about Processor.Process                                          *)
(***************************************************************************)
Returned == ppc \in {"rendered", "unchanged"}

\* the children dst.Inspect descends into
Children(n) ==
    CASE n.t = "File"           -> n.Decls
      [] n.t = "FuncDecl"       -> n.Body
      [] n.t = "ReturnStmt"     -> n.Results
      [] n.t = "IfStmt"         -> <<n.Cond>> \o n.Body
      [] n.t = "ExprStmt"       -> <<n.X>>
      [] n.t = "BinaryExpr"     -> <<n.X, n.Y>>
      [] n.t = "TypeAssertExpr" -> <<n.X>>
      [] n.t = "CallExpr"       -> <<n.Fun>> \o n.Args
      [] n.t = "SelectorExpr"   -> <<n.X>>
      [] OTHER                  -> <<>>

\* some node of the tree is a call errors.New(...)
RECURSIVE HasErrorsNew(_)
HasErrorsNew(n) ==
    \/ (n.t = "CallExpr" /\ n.Fun.t = "SelectorExpr" /\ n.Fun.X.t = "Ident"
          /\ n.Fun.X.Name = "errors" /\ n.Fun.Sel.Name = "New")
    \/ \E i \in 1..Len(Children(n)) : HasErrorsNew(Children(n)[i])

\* C4: the tree is rendered only if the rule reported a change; when it
\* reported none, the File returned has the input's name, no error, and the
\* input's content unaltered (same tree, same layout).
C4_RenderOnlyIfChanged ==
    /\ ppc = "rendered" => pchanged
    /\ (Returned /\ ~pchanged) =>
          /\ ppc = "unchanged"
          /\ f2 = File(f.Name, f.Content, Nil)
          /\ perr = Nil

\* C4 witness: a file laid out otherwise than the printer would, with
\* statements but none of the shapes, has been returned as it was
C4_Witness ==
    /\ run = 1
    /\ ppc = "unchanged"
    /\ f.Content.layout = "raw"
    /\ Len(f.Content.tree.Decls[Len(f.Content.tree.Decls)].Body) = 2
    /\ f2.Content = f.Content

\* C6 (as claimed): a run on the output of a previous run matches no node
\* (p.changed stays false) and returns the content it was given.
C6_Idempotent ==
    (run >= 2 /\ Returned) => (~pchanged /\ f2.Content = f.Content)

\* C6 (amended): a run on the output of a previous run rewrites no node and
\* returns the content it was given; p.changed is true in that run exactly
\* when the file holds a call errors.New(...), which the rule reports as a
\* change every time.
C6_IdempotentContent ==
    (run >= 2 /\ Returned) =>
        /\ df = f.Content.tree
        /\ f2.Content = f.Content
        /\ pchanged <=> HasErrorsNew(df)

\* C6 witness: the second run on a file the first run rewrote, with no call
\* errors.New, has returned without a change
C6_Witness ==
    /\ run = 2
    /\ ppc = "unchanged"
    /\ f.Content.layout = "gofmt"
    /\ \E i \in 1..Len(f.Content.tree.Decls) :
          /\ f.Content.tree.Decls[i].t = "GenDecl"
          /\ \E j \in 1..Len(f.Content.tree.Decls[i].Specs) :
                importPath(f.Content.tree.Decls[i].Specs[j]) = pkgPath
    /\ TheStmt(f.Content.tree) = ReturnStmt(<<withStackExpr>>)
    /\ f2.Content = f.Content

(***************************************************************************)
(* Claims about EndProcess and the imports                                 *)
(***************************************************************************)
Finalized == ppc \in {"finalized", "rendered", "unchanged"}

\* the import declarations of a file: all its declarations but the function
ImportsOf(tree) == SubSeq(tree.Decls, 1, Len(tree.Decls) - 1)

\* the places <<declaration, spec>> where the file imports the path
PlacesOf(tree, path) ==
    UNION { { <<i, j>> : j \in { k \in 1..Len(tree.Decls[i].Specs) :
                                    tree.Decls[i].Specs[k].Path.Value.s = path } } :
            i \in 1..Len(ImportsOf(tree)) }

\* C5 (as claimed): after EndProcess of a file in which the rule changed
\* something, github.com/pkg/errors is imported exactly once.
C5_ImportedExactlyOnce ==
    (Finalized /\ pchanged) => Cardinality(PlacesOf(df, pkgPath)) = 1

\* C5 (amended): after EndProcess of a file in which the rule changed
\* something, github.com/pkg/errors is imported exactly once when the input
\* imported it at most once; an input that imported it several times keeps
\* all of those imports.
C5_ImportedOnceUnlessAlreadyRepeated ==
    (Finalized /\ pchanged) =>
        LET before == Cardinality(PlacesOf(f.Content.tree, pkgPath))
        IN  Cardinality(PlacesOf(df, pkgPath)) = IF before = 0 THEN 1 ELSE before

\* C5 witness: two matches in a file with two import declarations, one of
\* them of the standard package, and the path is imported once afterwards
C5_Witness ==
    /\ ppc = "finalized"
    /\ pchanged
    /\ Len(f.Content.tree.Decls[Len(f.Content.tree.Decls)].Body) = 2
    /\ Len(ImportsOf(f.Content.tree)) = 2
    /\ PlacesOf(f.Content.tree, pkgPath) = {}
    /\ PlacesOf(f.Content.tree, stdErrorsPath) # {}
    /\ Cardinality(PlacesOf(df, pkgPath)) = 1

\* the case of C7: a change, no import of github.com/pkg/errors, an import
\* of "errors"
C7_Case ==
    /\ Finalized
    /\ pchanged
    /\ PlacesOf(f.Content.tree, pkgPath) = {}
    /\ PlacesOf(f.Content.tree, stdErrorsPath) # {}

\* C7 (as claimed): EndProcess rewrites only the path of an import spec of
\* "errors": the spec keeps its place and its alias, and every other import
\* spec is as it was.
C7_RewritesPathKeepsAlias ==
    C7_Case =>
        \E pl \in PlacesOf(f.Content.tree, stdErrorsPath) :
            ImportsOf(df) =
                [ImportsOf(f.Content.tree) EXCEPT
                    ![pl[1]].Specs[pl[2]] = [@ EXCEPT !.Path.Value = Quote(pkgPath)]]

\* C7 (amended): EndProcess rewrites the first import spec of "errors" in
\* place: the spec keeps its place, its path becomes github.com/pkg/errors
\* and its alias is removed; every other import spec is as it was.
C7_RewritesFirstDropsAlias ==
    C7_Case =>
        \E pl \in PlacesOf(f.Content.tree, stdErrorsPath) :
            /\ \A o \in PlacesOf(f.Content.tree, stdErrorsPath) :
                  pl[1] < o[1] \/ (pl[1] = o[1] /\ pl[2] <= o[2])
            /\ ImportsOf(df) =
                  [ImportsOf(f.Content.tree) EXCEPT
                      ![pl[1]].Specs[pl[2]] = ImportSpec("", "dq", pkgPath)]

\* C7 witness: the input imported "errors" twice, first under an alias and
\* after another import; the first of the two was rewritten
C7_Witness ==
    /\ C7_Case
    /\ ImportsOf(f.Content.tree) =
          <<ImportDecl(<<impBar, impErrorsAs>>, TRUE), ImportDecl(<<impErrors>>, FALSE)>>
    /\ ImportsOf(df) =
          <<ImportDecl(<<impBar, impPkg>>, TRUE), ImportDecl(<<impErrors>>, FALSE)>>

(***************************************************************************)
(* Claims about fixCallExpr and fixIfStmt                                  *)
(***************************************************************************)
\* dst.Inspect has walked the tree
Visited == ppc \in {"visited", "finalized", "rendered", "unchanged"}

\* the statement given and the statement as the walk left it
StmtIn  == TheStmt(f.Content.tree)
StmtOut == TheStmt(df)

IsFmtErrorf(c) ==
    /\ c.t = "CallExpr"
    /\ c.Fun = SelectorExpr(Ident("fmt"), "Errorf")

IsStringLit(e) == e.t = "BasicLit" /\ e.Kind = "STRING"

\* the condition of C8: a format literal ending in %v and a last argument err
WrapfCase(c) ==
    /\ Len(c.Args) >= 2
    /\ IsStringLit(c.Args[1])
    /\ Len(c.Args[1].Value.s) >= 2
    /\ c.Args[1].Value.s[Len(c.Args[1].Value.s) - 1] = "%"
    /\ c.Args[1].Value.s[Len(c.Args[1].Value.s)] = "v"
    /\ c.Args[Len(c.Args)] = Ident("err")

\* the format without its trailing %v and without the colons, commas and
\* spaces right before it
TrimmedFormat(s) ==
    LET body == SubSeq(s, 1, Len(s) - 2)
        n == CHOOSE k \in 0..Len(body) :
                /\ (k = 0 \/ body[k] \notin {":", ",", " "})
                /\ \A i \in (k + 1)..Len(body) : body[i] \in {":", ",", " "}
    IN  SubSeq(body, 1, n)

\* C8: fmt.Errorf(format, a1, ..., ak, err) with format ending in %v becomes
\* errors.Wrapf(err, trimmed, a1, ..., ak), the rule reporting a change.
C8_WrapfRewrite ==
    (Visited /\ StmtIn.t = "ExprStmt" /\ IsFmtErrorf(StmtIn.X) /\ WrapfCase(StmtIn.X)) =>
        /\ StmtOut.X =
              CallExpr(SelectorExpr(Ident("errors"), "Wrapf"),
                       <<Ident("err"),
                         StringLit("dq", TrimmedFormat(StmtIn.X.Args[1].Value.s))>>
                           \o SubSeq(StmtIn.X.Args, 2, Len(StmtIn.X.Args) - 1))
        /\ pchanged

\* C8 witness: fmt.Errorf("a, %v", x, err, err) has become
\* errors.Wrapf(err, "a", x, err)
C8_Witness ==
    /\ Visited
    /\ StmtIn = ExprStmt(CallExpr(fmtErrorf,
                   <<StringLit("dq", <<"a", ",", " ", "%", "v">>), x, err, err>>))
    /\ StmtOut = ExprStmt(CallExpr(SelectorExpr(Ident("errors"), "Wrapf"),
                   <<err, StringLit("dq", <<"a">>), x, err>>))

\* C9 (as claimed): every other call of fmt.Errorf has its target replaced by
\* errors.Errorf, its arguments kept, and the rule reports a change.
C9_ErrorfRewriteAlways ==
    (Visited /\ StmtIn.t = "ExprStmt" /\ IsFmtErrorf(StmtIn.X) /\ ~WrapfCase(StmtIn.X)) =>
        /\ StmtOut.X = [StmtIn.X EXCEPT !.Fun = SelectorExpr(Ident("errors"), "Errorf")]
        /\ pchanged

\* C9 (amended): a call of fmt.Errorf outside the Wrapf case whose first
\* argument is a string literal has its target replaced by errors.Errorf, its
\* arguments kept, and the rule reports a change; a call with no arguments or
\* with a first argument that is no string literal is left as it is and no
\* change is reported.
C9_ErrorfRewriteOfLiteralFormat ==
    (Visited /\ StmtIn.t = "ExprStmt" /\ IsFmtErrorf(StmtIn.X) /\ ~WrapfCase(StmtIn.X)) =>
        IF Len(StmtIn.X.Args) > 0 /\ IsStringLit(StmtIn.X.Args[1])
        THEN /\ StmtOut.X =
                  [StmtIn.X EXCEPT !.Fun = SelectorExpr(Ident("errors"), "Errorf")]
             /\ pchanged
        ELSE /\ StmtOut = StmtIn
             /\ ~pchanged

\* C9 witness: fmt.Errorf("%v", err, x), whose format ends in %v but whose
\* last argument is not err, has become errors.Errorf("%v", err, x)
C9_Witness ==
    /\ Visited
    /\ StmtIn = ExprStmt(CallExpr(fmtErrorf, <<StringLit("dq", <<"%", "v">>), err, x>>))
    /\ StmtOut = ExprStmt(CallExpr(SelectorExpr(Ident("errors"), "Errorf"),
                    <<StringLit("dq", <<"%", "v">>), err, x>>))
    /\ pchanged

CauseOfErr == CallExpr(SelectorExpr(Ident("errors"), "Cause"), <<Ident("err")>>)

\* c compares err with == or != against nil (againstNil) or against
\* something that is not nil (~againstNil)
ErrComparison(c, againstNil) ==
    /\ c.t = "BinaryExpr"
    /\ c.X = Ident("err")
    /\ c.Op \in {"==", "!="}
    /\ (c.Y = Ident("nil")) <=> againstNil

\* the condition C10 expects for a condition c
ExpectedCond(c) ==
    IF ErrComparison(c, FALSE)
    THEN [c EXCEPT !.X = CauseOfErr]
    ELSE IF /\ c.t = "BinaryExpr"
            /\ c.Op \in {"&&", "||"}
            /\ ErrComparison(c.X, TRUE)
            /\ ErrComparison(c.Y, FALSE)
    THEN [c EXCEPT !.Y.X = CauseOfErr]
    ELSE c

\* C10: err == X and err != X with X not nil get errors.Cause(err) as left
\* operand; err (==|!=) nil (&&| ||) err (==|!=) X with X not nil is rewritten
\* in its second clause only; a comparison against nil and every other
\* condition is left as it is.  A change is reported exactly when the
\* condition was rewritten.
C10_IfCondRewrite ==
    (Visited /\ StmtIn.t = "IfStmt") =>
        /\ StmtOut.Cond = ExpectedCond(StmtIn.Cond)
        /\ pchanged <=> (ExpectedCond(StmtIn.Cond) # StmtIn.Cond)

\* C10 witness: err == nil || err != ErrNotFound was rewritten in its second
\* clause only
C10_Witness ==
    /\ Visited
    /\ StmtIn.t = "IfStmt"
    /\ StmtIn.Cond = BinaryExpr(BinaryExpr(err, "==", nil), "||",
                                BinaryExpr(err, "!=", ErrNotFound))
    /\ StmtOut.Cond = BinaryExpr(BinaryExpr(err, "==", nil), "||",
                                 BinaryExpr(CauseOfErr, "!=", ErrNotFound))

(***************************************************************************)
(* Claims about fixReturnStmt                                              *)
(***************************************************************************)
WithStackOfErr == CallExpr(SelectorExpr(Ident("errors"), "WithStack"), <<Ident("err")>>)

\* C11: a return statement is rewritten exactly when its last result is the
\* identifier err; then only that last result is replaced, by
\* errors.WithStack(err), and every earlier result is as it was; a return
\* with no results, or whose last result is nil or any other expression, is
\* left as it is, also when an earlier result is err.  A change is reported
\* exactly when the statement was rewritten.  (The results are expressions
\* that none of the other shapes matches.)
C11_ReturnWrapsLastErrOnly ==
    (Visited /\ StmtIn.t = "ReturnStmt") =>
        LET rs == StmtIn.Results
            k  == Len(rs)
        IN  IF k > 0 /\ rs[k] = Ident("err")
            THEN /\ StmtOut = ReturnStmt(SubSeq(rs, 1, k - 1) \o <<WithStackOfErr>>)
                 /\ pchanged
            ELSE /\ StmtOut = StmtIn
                 /\ ~pchanged

\* C11 witness: return err, 1, err has become
\* return err, 1, errors.WithStack(err)
C11_Witness ==
    /\ Visited
    /\ StmtIn = ReturnStmt(<<err, one, err>>)
    /\ StmtOut = ReturnStmt(<<err, one, WithStackOfErr>>)
    /\ pchanged

(***************************************************************************)
(* Claims about the command errfix                                         *)
(***************************************************************************)
\* the run failed after some unit had appended its diff to buf
FailedWithDiffs == mpc = "exited" /\ ret # Nil /\ buf # <<>>

\* C12 (as claimed): when the run fails after units have appended diffs to
\* the writer's buffer, the command still writes the accumulated diff to
\* standard output unless -q is set, writes the error to standard error and
\* exits with a non-zero status.
C12_FlushesDiffOnFailure ==
    FailedWithDiffs =>
        /\ stdout = (IF quiet THEN <<>> ELSE buf)
        /\ stderr = <<ret>>
        /\ exitCode # 0

\* C12 (amended): when the run fails after units have appended diffs to the
\* writer's buffer, the command writes the error to standard error and exits
\* with status 1, and writes nothing to standard output, with or without
\* -q: the accumulated diff is written only by a run that returns no error.
C12_NoDiffOnFailure ==
    /\ FailedWithDiffs =>
          /\ stdout = <<>>
          /\ stderr = <<ret>>
          /\ exitCode = 1
    /\ (mpc = "exited" /\ stdout # <<>>) => (ret = Nil /\ ~quiet /\ stdout = buf)

\* C12 witness: without -q, two units appended their diffs, another unit
\* failed, and the command exited with the error alone
C12_Witness ==
    /\ FailedWithDiffs
    /\ ~quiet
    /\ Len(buf) = 2
    /\ stdout = <<>>
    /\ stderr = <<ret>>
    /\ exitCode = 1

(***************************************************************************)
(* Claims about the reader                                                 *)
(***************************************************************************)
\* input i is a path that cannot be statted when Read is called
BadPathAtRead(i) == inputs[i].k = "string" /\ inputs[i].p \notin fs0

\* every input is of a type Read accepts
TypesAccepted == \A i \in 1..Len(inputs) : inputs[i].k # "other"

\* the places in out of the Files input i produced
FilesOf(i) == {k \in 1..Len(out) : src[k] = i}

\* input i was delivered as one File carrying only the error of os.Stat,
\* after the Files of the inputs before it, every stream before it has its
\* File on ch, and the unit that received the File failed with that error
DeliveredAsError(i) ==
    /\ Cardinality(FilesOf(i)) = 1
    /\ \A k \in FilesOf(i) :
          /\ out[k] = File(inputs[i].p, "", StatError)
          /\ \A j \in 1..(k - 1) : src[j] < i
          /\ k <= Len(units) =>
                units[k] = [kind |-> "error while reading", name |-> inputs[i].p,
                            cause |-> StatError]
    /\ \A j \in 1..(i - 1) :
          inputs[j].k \in {"*os.File", "io.Reader"} => FilesOf(j) # {}

\* C13 (as claimed): with a path input that cannot be statted (and inputs of
\* accepted types), Read does not fail, and once reader.read has handled
\* that input it is on the stream as a File carrying only the error, after
\* the Files of the inputs listed before it.
C13_BadPathIsDeliveredAsData ==
    \A i \in 1..Len(inputs) :
        (rpc # "start" /\ TypesAccepted /\ BadPathAtRead(i)) =>
            /\ rret = Nil
            /\ ri > i => DeliveredAsError(i)

\* C13 (amended): a path input that cannot be statted when Read is called
\* makes Read fail with an error: no stream is returned and nothing is
\* delivered, not even the inputs listed before it.  Only a path that Read
\* could stat and reader.read cannot is delivered as a File carrying only
\* the error (empty content), after the Files of the inputs listed before
\* it, and that error is what its work unit fails with.
C13_BadPathFailsRead ==
    /\ \A i \in 1..Len(inputs) :
          (rpc # "start" /\ BadPathAtRead(i)) =>
              /\ rpc = "failed"
              /\ rret \in {InvalidSourceError, UnsupportedSourceError}
              /\ TypesAccepted => rret = InvalidSourceError
              /\ out = <<>>
              /\ units = <<>>
    /\ \A i \in 1..Len(stats) :
          stats[i] = "error" => (~BadPathAtRead(i) /\ DeliveredAsError(i))

\* C13 witness: Read was called with a stream and then a path that does not
\* exist; it failed, and nothing was delivered
C13_Witness ==
    /\ inputs = <<ReaderInput, StringInput(pathA)>>
    /\ pathA \notin fs0
    /\ rpc = "failed"
    /\ rret = InvalidSourceError
    /\ out = <<>>

\* the other case of C13: a path removed after Read was delivered as a File
\* carrying the error, after the File of the stream before it, and its unit
\* failed with the error
C13_WitnessRemoved ==
    /\ inputs = <<ReaderInput, StringInput(pathA)>>
    /\ stats = <<"none", "error">>
    /\ Len(out) = 2
    /\ out[2] = File(pathA, "", StatError)
    /\ Len(units) = 2
    /\ units[2].cause = StatError

====
